---- MODULE Spec2Model ----
(***************************************************************************)
(* Model of the GHOST phantom utilities: ghost/utils.py (shape masks, ring *)
(* points, point displacement, ellipse parameters) and ghost/calib.py      *)
(* (calibration sheets).  Every library function is one action: the caller *)
(* picks the arguments while pc = "idle", the action records the call and   *)
(* what the function returns or raises, and Consume hands control back.     *)
(* Arithmetic is exact (integers and rationals); floating rounding is not   *)
(* modelled.  Python's // is floor division, as is \div.                    *)
(***************************************************************************)
EXTENDS Integers, Sequences, FiniteSets, TLC

\* ---- bounds of the explored inputs ----
MaxDim == 3
MaxRadius == 3
MaxCenter == 2
MaxNPoints == 3
MaxCoord == 1
MaxShift == 1
MaxN == 1
MaxRows == 4
MaxTail == 3
MaxQuad == 2
MaxLin == 1
MaxF == 2

VARIABLES pc, call, ret, xls, data

vars == <<pc, call, ret, xls, data>>

NoCall == [op |-> "none"]
NoRet == [status |-> "none"]

\* ---- numpy helpers (arrays are functions over 0..n-1) ----

\* np.arange(lo, hi) + off
Arange(lo, hi, off) == [i \in 0..(hi - lo - 1) |-> lo + i + off]

Size(a) == Cardinality(DOMAIN a)

\* np.sqrt(s) < radius for an integer s >= 0, without taking the root
SqrtLess(s, radius) == radius > 0 /\ s < radius * radius

\* np.meshgrid(a, b), indexing='xy': both outputs have shape (len(b), len(a))
Meshgrid2(a, b) ==
    [shape |-> <<Size(b), Size(a)>>,
     X |-> [idx \in (DOMAIN b) \X (DOMAIN a) |-> a[idx[2]]],
     Y |-> [idx \in (DOMAIN b) \X (DOMAIN a) |-> b[idx[1]]]]

\* np.meshgrid(a, b, c), indexing='xy': outputs have shape (len(b), len(a), len(c))
Meshgrid3(a, b, c) ==
    [shape |-> <<Size(b), Size(a), Size(c)>>,
     X |-> [idx \in (DOMAIN b) \X (DOMAIN a) \X (DOMAIN c) |-> a[idx[2]]],
     Y |-> [idx \in (DOMAIN b) \X (DOMAIN a) \X (DOMAIN c) |-> b[idx[1]]],
     Z |-> [idx \in (DOMAIN b) \X (DOMAIN a) \X (DOMAIN c) |-> c[idx[3]]]]

\* arr = np.zeros(shape); arr[B] = 1 for a boolean array B with domain dom
\* and shape bshape: numpy raises IndexError unless the shapes agree.
BoolAssign(shape, bshape, dom, B) ==
    IF bshape = shape
    THEN [status |-> "ok", shape |-> shape,
          at |-> [idx \in dom |-> IF B[idx] THEN 1 ELSE 0]]
    ELSE [status |-> "IndexError"]

\* ---- ShapeMaskGenerator ----

make_circle(img_shape, radius, center) ==
    LET nx == img_shape[1]
        ny == img_shape[2]
        g == Meshgrid2(Arange((-nx) \div 2, nx \div 2, center[1]),
                       Arange((-ny) \div 2, ny \div 2, center[2]))
        dom == DOMAIN g.X
        D2 == [idx \in dom |-> g.X[idx] * g.X[idx] + g.Y[idx] * g.Y[idx]]
    IN BoolAssign(img_shape, g.shape, dom, [idx \in dom |-> SqrtLess(D2[idx], radius)])

SphereOffsetNoReversal(n, c) == c

\* cx = nx - center[0] - nx//2
SphereOffset(n, c) == n - c - n \div 2

make_sphere(img_shape, radius, center) ==
    LET nx == img_shape[1]
        ny == img_shape[2]
        nz == img_shape[3]
        cx == SphereOffset(nx, center[1])
        cy == SphereOffset(ny, center[2])
        cz == SphereOffset(nz, center[3])
        g == Meshgrid3(Arange((-ny) \div 2, ny \div 2, cy),
                       Arange((-nx) \div 2, nx \div 2, cx),
                       Arange((-nz) \div 2, nz \div 2, cz))
        dom == DOMAIN g.X
        D2 == [idx \in dom |-> g.X[idx] * g.X[idx] + g.Y[idx] * g.Y[idx]
                               + g.Z[idx] * g.Z[idx]]
    IN BoolAssign(img_shape, g.shape, dom, [idx \in dom |-> SqrtLess(D2[idx], radius)])

\* ---- RingPointGenerator ----

\* np.linspace(0, 1, n): n samples i/(n-1), both ends included; each sample
\* is kept as the exact fraction <<numerator, denominator>>
Linspace01(n) == [i \in 0..(n - 1) |-> IF n = 1 THEN <<0, 1>> ELSE <<i, n - 1>>]

\* the number c, as held in a coordinate column
Scalar(c) == [fn |-> "one", amp |-> 0, t |-> <<0, 1>>, base |-> c]

\* np.ones_like(t) * c
OnesTimes(t, c) == [i \in DOMAIN t |-> Scalar(c)]

\* r*np.cos(t*2*np.pi) + c  and  r*np.sin(t*2*np.pi) + c, kept symbolic
RCos(t, r, c) == [i \in DOMAIN t |-> [fn |-> "cos", amp |-> r, t |-> t[i], base |-> c]]

RSin(t, r, c) == [i \in DOMAIN t |-> [fn |-> "sin", amp |-> r, t |-> t[i], base |-> c]]

\* [v, *a]
Prepend(v, a) == [i \in 0..Size(a) |-> IF i = 0 THEN v ELSE a[i - 1]]

PointsFrameNoCenter(center, x, y, z) == [status |-> "ok", x |-> x, y |-> y, z |-> z]

\* pd.DataFrame.from_dict({'x':[center[0], *x], 'y':[center[1], *y], 'z':[center[2], *z]})
PointsFrame(center, x, y, z) ==
    [status |-> "ok",
     x |-> Prepend(Scalar(center[1]), x),
     y |-> Prepend(Scalar(center[2]), y),
     z |-> Prepend(Scalar(center[3]), z)]

\* with no branch taken x, y and z are unbound at the DataFrame line, and
\* Python raises UnboundLocalError for the first one it reads
gen_circle(center, r, axis, npoints) ==
    LET t == Linspace01(npoints)
    IN IF axis = "x"
       THEN PointsFrame(center, OnesTimes(t, center[1]), RCos(t, r, center[2]),
                        RSin(t, r, center[3]))
       ELSE IF axis = "y"
       THEN PointsFrame(center, RCos(t, r, center[1]), OnesTimes(t, center[2]),
                        RSin(t, r, center[3]))
       ELSE IF axis = "z"
       THEN PointsFrame(center, RSin(t, r, center[1]), RCos(t, r, center[2]),
                        OnesTimes(t, center[3]))
       ELSE [status |-> "UnboundLocalError", name |-> "x"]

\* ---- PointTransformer ----

\* ants.apply_transforms_to_points(3, points_df, transformlist): the external
\* evaluator, here a translation by xfm.v or a stretch of the x axis
ApplyTransformsToPoints(points_df, xfm) ==
    IF xfm.kind = "translate"
    THEN [x |-> [i \in DOMAIN points_df.x |-> points_df.x[i] + xfm.v[1]],
          y |-> [i \in DOMAIN points_df.y |-> points_df.y[i] + xfm.v[2]],
          z |-> [i \in DOMAIN points_df.z |-> points_df.z[i] + xfm.v[3]]]
    ELSE [x |-> [i \in DOMAIN points_df.x |-> 2 * points_df.x[i]],
          y |-> points_df.y,
          z |-> points_df.z]

RelativeToFirstOf(col, origin) == [i \in 0..(Size(col) - 2) |-> col[i + 1] - origin[0]]

\* col[1:] - col[0]
RelativeToFirst(col) == [i \in 0..(Size(col) - 2) |-> col[i + 1] - col[0]]

\* np.stack((a, b, c)) of three equally long arrays: shape (3, n)
Stack3(a, b, c) ==
    [shape |-> <<3, Size(a)>>,
     at |-> [idx \in (0..2) \X (DOMAIN a) |->
               IF idx[1] = 0 THEN a[idx[2]] ELSE IF idx[1] = 1 THEN b[idx[2]] ELSE c[idx[2]]]]

DisplacementsFromOriginalCenter(points_df, points_xfm) ==
    Stack3(RelativeToFirstOf(points_xfm.x, points_df.x),
           RelativeToFirstOf(points_xfm.y, points_df.y),
           RelativeToFirstOf(points_xfm.z, points_df.z))

\* x1, y1, z1 and p1 = np.stack((x1,y1,z1))
TransformedDisplacements(points_df, points_xfm) ==
    Stack3(RelativeToFirst(points_xfm.x), RelativeToFirst(points_xfm.y),
           RelativeToFirst(points_xfm.z))

transform_points(points_df, xfm) ==
    LET points_xfm == ApplyTransformsToPoints(points_df, xfm)
    IN [status |-> "ok",
        p0 |-> Stack3(RelativeToFirst(points_df.x), RelativeToFirst(points_df.y),
                      RelativeToFirst(points_df.z)),
        p1 |-> TransformedDisplacements(points_df, points_xfm)]

\* ---- ConicFitter: parameter extraction ----

Abs(n) == IF n < 0 THEN -n ELSE n

Sign(n) == IF n < 0 THEN -1 ELSE IF n = 0 THEN 0 ELSE 1

RECURSIVE GCD(_, _)
GCD(m, n) == IF n = 0 THEN m ELSE GCD(n, m % n)

IsSquare(q) == \E s \in 0..q : s * s = q

\* np.sqrt of a perfect square
ISqrt(q) == CHOOSE s \in 0..q : s * s = q

NaN == [kind |-> "nan", n |-> 0, d |-> 0]

\* the fraction n/d in lowest terms with a positive denominator
Rat(n, d) ==
    LET g == GCD(Abs(n), Abs(d))
    IN [kind |-> "fin", n |-> (Sign(d) * n) \div g, d |-> Abs(d) \div g]

\* n / d in float64: a zero divisor gives nan for 0/0 and a signed inf otherwise
Div(n, d) ==
    IF d # 0 THEN Rat(n, d)
    ELSE IF n = 0 THEN NaN
    ELSE [kind |-> "inf", n |-> Sign(n), d |-> 0]

\* -np.sqrt(R) / disc, held as its sign and its square: np.sqrt of a negative
\* number is nan, -0.0/0 is nan, and a negative number over 0 is -inf
NegSqrtOver(R, disc) ==
    IF R < 0 THEN [kind |-> "nan", sign |-> 0, sq |-> Rat(0, 1)]
    ELSE IF disc = 0
         THEN IF R = 0 THEN [kind |-> "nan", sign |-> 0, sq |-> Rat(0, 1)]
              ELSE [kind |-> "inf", sign |-> -1, sq |-> Rat(0, 1)]
    ELSE [kind |-> "fin", sign |-> IF R = 0 THEN 0 ELSE -Sign(disc),
          sq |-> Rat(R, disc * disc)]

\* 0.5*np.arctan2(y, x), held as the direction of (x, y); arctan2(0, 0) is 0
HalfArctan2(y, x) ==
    IF x = 0 /\ y = 0 THEN <<0, 1>>
    ELSE LET g == GCD(Abs(y), Abs(x)) IN <<y \div g, x \div g>>

\* np.sqrt(1 - b**2/a**2), held as its sign and its square
Ecc(a, b) ==
    IF a.kind = "fin" /\ b.kind = "fin" /\ a.sq.n # 0
    THEN LET num == a.sq.n * b.sq.d - b.sq.n * a.sq.d
             den == a.sq.n * b.sq.d
         IN IF Sign(num) * Sign(den) < 0
            THEN [kind |-> "nan", sign |-> 0, sq |-> Rat(0, 1)]
            ELSE [kind |-> "fin", sign |-> Abs(Sign(num)), sq |-> Rat(num, den)]
    ELSE IF a.kind = "inf" /\ b.kind = "fin"
    THEN [kind |-> "fin", sign |-> 1, sq |-> Rat(1, 1)]
    ELSE [kind |-> "nan", sign |-> 0, sq |-> Rat(0, 1)]

\* B**2 - 4*A*C
Disc(fit) == fit[2] * fit[2] - 4 * fit[1] * fit[3]

\* get_ellipse_params from the fitted coefficients on: the function has no
\* raise, so every fit gives a dictionary
ellipse_params(fit) ==
    LET A == fit[1]
        B == fit[2]
        C == fit[3]
        D == fit[4]
        E == fit[5]
        F == fit[6]
        disc == Disc(fit)
        num == 2 * (A * E * E + C * D * D - B * D * E + disc * F)
        S == ISqrt((A - C) * (A - C) + B * B)
        a == NegSqrtOver(num * ((A + C) + S), disc)
        b == NegSqrtOver(num * ((A + C) - S), disc)
    IN [status |-> "ok", ABCDEF |-> fit, a |-> a, b |-> b,
        x0 |-> Div(2 * C * D - B * E, disc),
        y0 |-> Div(2 * A * E - B * D, disc),
        theta |-> HalfArctan2(-B, C - A),
        ecc |-> Ecc(a, b)]

\* ---- calibration sheets (ghost/calib.py) ----

Min(a, b) == IF a < b THEN a ELSE b

Max(a, b) == IF a > b THEN a ELSE b

\* the default sheet description of read_calibration_sheet
DefaultSheets ==
    [k \in {"ADC Solutions @ 1.5T", "ADC Solutions @ 3.0T", "NiCl Solutions @ 1.5T",
            "NiCl Solutions @ 3.0T", "MnCl Solutions @ 1.5T", "MnCl Solutions @ 3.0T",
            "CuSO4 Solutions @ 3.0T", "CMRI LC Values"} |->
       CASE k = "ADC Solutions @ 1.5T" -> [name |-> "ADC_15T", head |-> 3, tail |-> 2]
         [] k = "ADC Solutions @ 3.0T" -> [name |-> "ADC_3T", head |-> 3, tail |-> 2]
         [] k = "NiCl Solutions @ 1.5T" -> [name |-> "NiCl_15T", head |-> 3, tail |-> 2]
         [] k = "NiCl Solutions @ 3.0T" -> [name |-> "NiCl_3T", head |-> 3, tail |-> 2]
         [] k = "MnCl Solutions @ 1.5T" -> [name |-> "MnCl_15T", head |-> 3, tail |-> 2]
         [] k = "MnCl Solutions @ 3.0T" -> [name |-> "MnCl_3T", head |-> 3, tail |-> 2]
         [] k = "CuSO4 Solutions @ 3.0T" -> [name |-> "CuSO4_3T", head |-> 3, tail |-> 3]
         [] k = "CMRI LC Values" -> [name |-> "CMRI_LC", head |-> 3, tail |-> 0]]

\* Calibration.__sheets: field strength -> mechanism -> logical sheet name
SheetTable ==
    ("3" :> [T1 |-> "NiCl_3T", T2 |-> "MnCl_3T", ADC |-> "ADC_3T", CuSO4 |-> "CuSO4_3T"])
      @@ ("1.5" :> [T1 |-> "NiCl_15T", T2 |-> "MnCl_15T", ADC |-> "ADC_15T"])

\* pd.read_excel(fname, sheet_name=key, header=head): the lines below line
\* `head` (0-based), which holds the column names
read_excel(fname, key, head) == SubSeq(fname[key], head + 2, Len(fname[key]))

\* df[:stop], Python slice semantics for any integer stop
SliceTo(df, stop) ==
    IF stop >= 0 THEN SubSeq(df, 1, Min(stop, Len(df)))
    ELSE SubSeq(df, 1, Max(0, Len(df) + stop))

\* sheets=None
NoSheets == << >>

\* an empty or missing description selects the default one
read_calibration_sheet(fname, sheets) ==
    LET cfg == IF DOMAIN sheets = {} THEN DefaultSheets ELSE sheets
        keyOf(n) == CHOOSE k \in DOMAIN cfg : cfg[k].name = n
    IN [n \in {cfg[k].name : k \in DOMAIN cfg} |->
          SliceTo(read_excel(fname, keyOf(n), cfg[keyOf(n)].head),
                  -1 * cfg[keyOf(n)].tail)]

\* Calibration._get_vals: the KeyError of the table lookup is re-raised with
\* a message built from mimics, B0 and self.__sheets.keys()
get_vals(cal, temp, mimics, column, B0) ==
    IF B0 \in DOMAIN SheetTable /\ mimics \in DOMAIN SheetTable[B0]
    THEN LET sheet == SheetTable[B0][mimics]
             df == cal[sheet]
             AtTemp(row) == row["Temperature (C)"] = temp
             sel == SelectSeq(df, AtTemp)
         IN [status |-> "ok", accessed |-> {sheet},
             values |-> [i \in 1..Len(sel) |-> sel[i][column]]]
    ELSE [status |-> "KeyError", accessed |-> {},
          msg |-> [mimics |-> mimics, B0 |-> B0, available |-> DOMAIN SheetTable]]

get_T1_vals(cal, temp, mimics, B0) == get_vals(cal, temp, mimics, "T1 (ms)", B0)

get_T2_vals(cal, temp, mimics, B0) == get_vals(cal, temp, mimics, "T2 (ms)", B0)

get_thermometer_vals(cal) ==
    [status |-> "ok", accessed |-> {"CMRI_LC"},
     values |-> [i \in 1..Len(cal["CMRI_LC"]) |->
                   cal["CMRI_LC"][i]["Measured Transition Temperature (C)"]]]

\* ---- the calibration workbook handed to the loader ----

SheetLine(kind, j) ==
    [c \in {"kind", "id", "Temperature (C)", "T1 (ms)", "T2 (ms)",
             "Measured Transition Temperature (C)"} |->
       CASE c = "kind" -> kind
         [] c = "id" -> j
         [] c = "Temperature (C)" -> IF j % 2 = 1 THEN 16 ELSE 18
         [] c = "T1 (ms)" -> 100 * j
         [] c = "T2 (ms)" -> 10 * j
         [] c = "Measured Transition Temperature (C)" -> 15 + j]

\* the r data rows of a sheet, in file order
SheetRows(r) == [j \in 1..r |-> SheetLine("row", j)]

\* a sheet: three title lines, the column names, then the data rows
Workbook(r) ==
    [k \in DOMAIN DefaultSheets |->
       <<SheetLine("title", 0), SheetLine("title", 0), SheetLine("title", 0),
         SheetLine("columns", 0)>> \o SheetRows(r)]

Dims == 1..MaxDim
Radii == 0..MaxRadius
Centers == 0..MaxCenter

MakeCircle ==
    /\ pc = "idle"
    /\ \E nx \in Dims, ny \in Dims, radius \in Radii, c0 \in Centers, c1 \in Centers :
         /\ call' = [op |-> "make_circle", img_shape |-> <<nx, ny>>,
                     radius |-> radius, center |-> <<c0, c1>>]
         /\ ret' = make_circle(<<nx, ny>>, radius, <<c0, c1>>)
    /\ pc' = "done"
    /\ UNCHANGED <<xls, data>>

MakeSphere ==
    /\ pc = "idle"
    /\ \E nx \in Dims, ny \in Dims, nz \in Dims, radius \in Radii,
          c0 \in Centers, c1 \in Centers, c2 \in Centers :
         /\ call' = [op |-> "make_sphere", img_shape |-> <<nx, ny, nz>>,
                     radius |-> radius, center |-> <<c0, c1, c2>>]
         /\ ret' = make_sphere(<<nx, ny, nz>>, radius, <<c0, c1, c2>>)
    /\ pc' = "done"
    /\ UNCHANGED <<xls, data>>

Axes == {"x", "y", "z", "w"}
NPoints == 1..MaxNPoints
RingRadii == 1..MaxRadius

GenCircle ==
    /\ pc = "idle"
    /\ \E c0 \in Centers, c1 \in Centers, c2 \in Centers, r \in RingRadii,
          axis \in Axes, npoints \in NPoints :
         /\ call' = [op |-> "gen_circle", center |-> <<c0, c1, c2>>, r |-> r,
                     axis |-> axis, npoints |-> npoints]
         /\ ret' = gen_circle(<<c0, c1, c2>>, r, axis, npoints)
    /\ pc' = "done"
    /\ UNCHANGED <<xls, data>>

Coords == 0..MaxCoord
Shifts == 0..MaxShift
\* offsets of unit-radius ring samples from the ring's center
RingOffsets == {<<1, 0, 0>>, <<-1, 0, 0>>, <<0, 1, 0>>, <<0, -1, 0>>, <<0, 0, 1>>, <<0, 0, -1>>}

\* a center-first point set: the center followed by n ring samples
PointSets ==
    UNION {{[x |-> [i \in 0..n |-> IF i = 0 THEN c[1] ELSE c[1] + offs[i][1]],
             y |-> [i \in 0..n |-> IF i = 0 THEN c[2] ELSE c[2] + offs[i][2]],
             z |-> [i \in 0..n |-> IF i = 0 THEN c[3] ELSE c[3] + offs[i][3]]] :
              c \in Coords \X Coords \X Coords, offs \in [1..n -> RingOffsets]} :
           n \in 0..MaxN}

Transforms ==
    {[kind |-> "translate", v |-> v] : v \in Shifts \X Shifts \X Shifts}
      \cup {[kind |-> "stretch", v |-> <<0, 0, 0>>]}

TransformPoints ==
    /\ pc = "idle"
    /\ \E points_df \in PointSets, xfm \in Transforms :
         /\ call' = [op |-> "transform_points", points_df |-> points_df, xfm |-> xfm]
         /\ ret' = transform_points(points_df, xfm)
    /\ pc' = "done"
    /\ UNCHANGED <<xls, data>>

\* fitted coefficient vectors whose root sqrt((A-C)^2 + B^2) is an integer
Conics ==
    {fit \in (-MaxQuad..MaxQuad) \X (-MaxQuad..MaxQuad) \X (-MaxQuad..MaxQuad)
             \X (-MaxLin..MaxLin) \X (-MaxLin..MaxLin) \X (-MaxF..MaxF) :
       IsSquare((fit[1] - fit[3]) * (fit[1] - fit[3]) + fit[2] * fit[2])}

\* fit_ellipse_svd / fit_ellipse_eig return some coefficient vector of the
\* fitted conic; its scale and sign are whatever the decomposition gives
GetEllipseParams ==
    /\ pc = "idle"
    /\ \E method \in {"svd", "eig"}, fit \in Conics :
         /\ call' = [op |-> "get_ellipse_params", method |-> method, fit |-> fit]
         /\ ret' = ellipse_params(fit)
    /\ pc' = "done"
    /\ UNCHANGED <<xls, data>>

\* a caller's description of one sheet
SheetConfigs ==
    {NoSheets} \cup
    {k :> [name |-> "custom", head |-> 3, tail |-> t] :
       k \in DOMAIN DefaultSheets, t \in 0..MaxTail}

ReadCalibrationSheet ==
    /\ pc = "idle"
    /\ \E r \in 0..MaxRows, sheets \in SheetConfigs :
         /\ call' = [op |-> "read_calibration_sheet", rows |-> r, sheets |-> sheets]
         /\ ret' = [status |-> "ok", data |-> read_calibration_sheet(Workbook(r), sheets)]
    /\ pc' = "done"
    /\ UNCHANGED <<xls, data>>

\* Calibration(fname): a new object replaces the one in use
Construct ==
    /\ pc = "idle"
    /\ \E r \in 0..MaxRows :
         /\ call' = [op |-> "Calibration", rows |-> r, sheets |-> NoSheets]
         /\ xls' = Workbook(r)
         /\ data' = read_calibration_sheet(Workbook(r), NoSheets)
         /\ ret' = [status |-> "ok", data |-> data']
    /\ pc' = "done"

Temps == {16, 18, 20}
Mechanisms == {"T1", "T2", "ADC", "CuSO4"}
MimicsArgs == Mechanisms \cup {"PD"}
FieldArgs == {"3", "1.5", "7"}

GetT1Vals ==
    /\ pc = "idle"
    /\ \E temp \in Temps, mimics \in MimicsArgs, B0 \in FieldArgs :
         /\ call' = [op |-> "get_T1_vals", temp |-> temp, mimics |-> mimics, B0 |-> B0]
         /\ ret' = get_T1_vals(data, temp, mimics, B0)
    /\ pc' = "done"
    /\ UNCHANGED <<xls, data>>

GetT2Vals ==
    /\ pc = "idle"
    /\ \E temp \in Temps, mimics \in MimicsArgs, B0 \in FieldArgs :
         /\ call' = [op |-> "get_T2_vals", temp |-> temp, mimics |-> mimics, B0 |-> B0]
         /\ ret' = get_T2_vals(data, temp, mimics, B0)
    /\ pc' = "done"
    /\ UNCHANGED <<xls, data>>

GetThermometerVals ==
    /\ pc = "idle"
    /\ call' = [op |-> "get_thermometer_vals"]
    /\ ret' = get_thermometer_vals(data)
    /\ pc' = "done"
    /\ UNCHANGED <<xls, data>>

\* the caller takes the result; the next call starts from idle
Consume ==
    /\ pc = "done"
    /\ pc' = "idle"
    /\ call' = NoCall
    /\ ret' = NoRet
    /\ UNCHANGED <<xls, data>>

Init ==
    /\ pc = "idle"
    /\ call = NoCall
    /\ ret = NoRet
    /\ xls = Workbook(MaxRows)
    /\ data = read_calibration_sheet(xls, NoSheets)

Next ==
    \/ MakeCircle
    \/ MakeSphere
    \/ GenCircle
    \/ TransformPoints
    \/ GetEllipseParams
    \/ Consume

Spec == Init /\ [][Next]_vars

\* the calibration object and its loader
NextCalib ==
    \/ Construct
    \/ ReadCalibrationSheet
    \/ GetT1Vals
    \/ GetT2Vals
    \/ GetThermometerVals
    \/ Consume

SpecCalib == Init /\ [][NextCalib]_vars

\* C2: make_sphere returns a mask of shape (nx, ny, nz) whose voxel [i, j, k]
\* is 1 exactly when (i-c0)^2 + (j-c1)^2 + (k-c2)^2 < radius^2, else 0.
C2_SphereVoxels ==
    call.op = "make_sphere" =>
        LET s == call.img_shape
            c == call.center
            r == call.radius
        IN /\ ret.status = "ok"
           /\ ret.shape = s
           /\ DOMAIN ret.at = (0..(s[1]-1)) \X (0..(s[2]-1)) \X (0..(s[3]-1))
           /\ \A idx \in DOMAIN ret.at :
                ret.at[idx] = IF (idx[1]-c[1])*(idx[1]-c[1]) + (idx[2]-c[2])*(idx[2]-c[2])
                                 + (idx[3]-c[3])*(idx[3]-c[3]) < r*r
                              THEN 1 ELSE 0

\* a sphere in a volume of mixed odd/even, pairwise different dimensions,
\* centred off the first voxel, with voxels both inside and outside
C2_Witness ==
    /\ call.op = "make_sphere"
    /\ call.img_shape = <<2, 3, 1>>
    /\ call.center = <<1, 2, 0>>
    /\ call.radius = 2
    /\ ret.status = "ok"
    /\ ret.at[<<1, 2, 0>>] = 1
    /\ ret.at[<<0, 0, 0>>] = 0

\* C1: make_circle returns, for every shape (square or not), a 0/1 mask of
\* shape (nx, ny) whose number of 1-cells equals the number of points of the
\* offset index mesh at distance strictly less than radius.
C1_CircleCount ==
    call.op = "make_circle" =>
        LET nx == call.img_shape[1]
            ny == call.img_shape[2]
            xs == Arange((-nx) \div 2, nx \div 2, call.center[1])
            ys == Arange((-ny) \div 2, ny \div 2, call.center[2])
            inside == {p \in (DOMAIN xs) \X (DOMAIN ys) :
                         SqrtLess(xs[p[1]]*xs[p[1]] + ys[p[2]]*ys[p[2]], call.radius)}
        IN /\ ret.status = "ok"
           /\ ret.shape = call.img_shape
           /\ DOMAIN ret.at = (0..(nx-1)) \X (0..(ny-1))
           /\ \A idx \in DOMAIN ret.at : ret.at[idx] \in {0, 1}
           /\ Cardinality({idx \in DOMAIN ret.at : ret.at[idx] = 1}) = Cardinality(inside)

\* C3: for axis in {x, y, z} and npoints = N >= 1, gen_circle returns exactly
\* N+1 points and the point at index 0 equals center.
C3_RingSize ==
    (call.op = "gen_circle" /\ call.axis \in {"x", "y", "z"}) =>
        /\ ret.status = "ok"
        /\ DOMAIN ret.x = 0..call.npoints
        /\ DOMAIN ret.y = 0..call.npoints
        /\ DOMAIN ret.z = 0..call.npoints
        /\ <<ret.x[0], ret.y[0], ret.z[0]>>
             = <<Scalar(call.center[1]), Scalar(call.center[2]), Scalar(call.center[3])>>

\* a ring about z of three samples around an off-origin center
C3_Witness ==
    /\ call.op = "gen_circle"
    /\ call.axis = "z"
    /\ call.npoints = 3
    /\ call.center = <<1, 2, 0>>
    /\ call.r = 2
    /\ ret.status = "ok"
    /\ Size(ret.x) = 4
    /\ ret.x[1].fn = "sin"

\* the column of a ring that carries cos(2*pi*t)
CosColumn(axis, points) == IF axis = "y" THEN points.x ELSE points.y

\* two samples of a ring are at the same angle when their t differ by an integer
SameAngle(t1, t2) == (t1[1] * t2[2] - t2[1] * t1[2]) % (t1[2] * t2[2]) = 0

\* C4: the boundary samples at indices 1..N use t with 0 <= t < 1, so t = 1
\* is never sampled and no two boundary samples share the same angle.
C4_HalfOpenSampling ==
    (call.op = "gen_circle" /\ ret.status = "ok") =>
        LET col == CosColumn(call.axis, ret)
        IN /\ \A i \in 1..call.npoints :
                0 <= col[i].t[1] /\ col[i].t[1] < col[i].t[2]
           /\ \A i, j \in 1..call.npoints :
                i # j => ~SameAngle(col[i].t, col[j].t)

\* C8: gen_circle with an axis outside {x, y, z} fails with an InvalidArgument
\* kind of error (ValueError) that identifies the axis argument, and returns
\* no point set.
C8_BadAxisInvalidArgument ==
    (call.op = "gen_circle" /\ call.axis \notin {"x", "y", "z"}) =>
        /\ ret.status \in {"InvalidArgument", "ValueError"}
        /\ ret.name = "axis"

\* C5: when the evaluator is the identity or a translation by one fixed
\* vector, p0 and p1 are identical 3 x n arrays whose column i is
\* point[i+1] - point[0].
C5_TranslationInvariant ==
    (call.op = "transform_points" /\ call.xfm.kind = "translate") =>
        LET pts == call.points_df
            n == Size(pts.x) - 1
        IN /\ ret.status = "ok"
           /\ ret.p0 = ret.p1
           /\ ret.p1.shape = <<3, n>>
           /\ DOMAIN ret.p1.at = (0..2) \X (0..(n - 1))
           /\ \A i \in 0..(n - 1) :
                <<ret.p1.at[<<0, i>>], ret.p1.at[<<1, i>>], ret.p1.at[<<2, i>>]>>
                  = <<pts.x[i+1] - pts.x[0], pts.y[i+1] - pts.y[0], pts.z[i+1] - pts.z[0]>>

\* a point set with a ring sample, moved by a translation that is not the identity
C5_Witness ==
    /\ call.op = "transform_points"
    /\ call.xfm = [kind |-> "translate", v |-> <<1, 0, 1>>]
    /\ Size(call.points_df.x) = 2
    /\ ret.status = "ok"
    /\ ret.p0.at[<<2, 0>>] = -1
    /\ ret.p1.at[<<2, 0>>] = -1

\* C9: whenever the fitted coefficients satisfy B^2 - 4AC = 0,
\* get_ellipse_params reports a DegenerateConic error and returns no
\* dictionary with infinite or undefined a, b, x0 or y0.
C9_DegenerateReported ==
    (call.op = "get_ellipse_params" /\ Disc(call.fit) = 0) =>
        /\ ret.status = "DegenerateConic"
        /\ ~(/\ ret.status = "ok"
             /\ \E v \in {ret.a, ret.b, ret.x0, ret.y0} : v.kind \in {"inf", "nan"})

\* the canonical parameters (a, b, x0, y0, theta) of a parameter dictionary
Canonical(params) == <<params.a, params.b, params.x0, params.y0, params.theta>>

ScaleCoef(k, fit) == [i \in 1..6 |-> k * fit[i]]

\* C10: for coefficients with B^2 - 4AC # 0 and any nonzero factor k,
\* positive or negative, the extraction gives the same (a, b, x0, y0, theta)
\* for the coefficients and for k times the coefficients.
C10_ScaleInvariant ==
    (call.op = "get_ellipse_params" /\ Disc(call.fit) # 0) =>
        \A k \in {-2, -1, 2} :
            Canonical(ellipse_params(ScaleCoef(k, call.fit))) = Canonical(ret)

\* C6: for every sheet with r rows and every configured tail k with
\* 0 <= k <= r, the stored table is exactly the first r - k rows of the
\* sheet in their original order.
C6_TailRowsDropped ==
    (call.op \in {"read_calibration_sheet", "Calibration"}) =>
        LET cfg == IF call.sheets = NoSheets THEN DefaultSheets ELSE call.sheets
        IN /\ ret.status = "ok"
           /\ \A key \in DOMAIN cfg :
                cfg[key].tail <= call.rows =>
                    ret.data[cfg[key].name]
                      = SubSeq(SheetRows(call.rows), 1, call.rows - cfg[key].tail)

\* C7: for every (mechanism, field strength) pair that is not in the sheet
\* table, get_T1_vals/get_T2_vals raise a lookup error whose message lists
\* the available mechanisms, and no calibration data are read or changed.
C7_LookupErrorListsMechanisms ==
    (/\ call.op \in {"get_T1_vals", "get_T2_vals"}
     /\ ~(call.B0 \in DOMAIN SheetTable /\ call.mimics \in DOMAIN SheetTable[call.B0])) =>
        /\ ret.status \in {"LookupError", "KeyError", "IndexError"}
        /\ ret.msg.available \in
             {Mechanisms} \cup {DOMAIN SheetTable[b] : b \in DOMAIN SheetTable}
        /\ ret.accessed = {}
        /\ data = read_calibration_sheet(xls, NoSheets)

====
